---- MODULE Spec2Model ----
(***************************************************************************)
(* A model of the text-correction pipeline of writting_corrections:        *)
(*   src/app.py       GrammarCheckerApp: the debounce timer, the           *)
(*                    normalizer fix_text_structure and check_grammar      *)
(*                    (normalize, grammar engine, splice merge,            *)
(*                    normalize);                                          *)
(*   src/app_work.py  SpellCheckHighlighter.check_text and its cache.      *)
(* A text is a sequence of one-character strings.                          *)
(***************************************************************************)
EXTENDS Integers, Sequences, FiniteSets, TLC

VARIABLES
    \* src/app.py, GrammarCheckerApp
    input_text,       \* self.input_text.toPlainText()
    previous_text,    \* self.previous_text
    output_text,      \* self.output_text.toPlainText()
    timer_active,     \* self.timer.isActive()
    timer_remaining,  \* ms until the single-shot timer times out
    since_edit,       \* observer: ms since the last textChanged notification
    fires,            \* observer: check_grammar calls since the last notification
    burst_len,        \* observer: notifications of the current burst (capped)
    last_cycle,       \* observer: what the most recent check_grammar call did
    \* the normalizer applied to a drawn text
    n_text, n_once, n_twice, n_pc,
    \* the splice loop applied to a drawn text and match list
    m_text, m_matches, m_result, m_pc,
    \* src/app_work.py, SpellCheckHighlighter
    h_text,           \* the text of the latest check_text call
    errors,           \* self.errors
    cache,            \* self.cache
    h_invoked,        \* observer: the tokens the latest call gave the spelling engine
    h_ever,           \* observer: the case-folded tokens ever given to the engine
    h_returned,       \* observer: those for which the engine returned a correction
    h_status          \* observer: how the latest check_text call ended

appVars  == <<input_text, previous_text, output_text, timer_active,
              timer_remaining, since_edit, fires, burst_len, last_cycle>>
normVars == <<n_text, n_once, n_twice, n_pc>>
mergeVars == <<m_text, m_matches, m_result, m_pc>>
hlVars   == <<h_text, errors, cache, h_invoked, h_ever, h_returned, h_status>>
vars     == <<appVars, normVars, mergeVars, hlVars>>

----------------------------------------------------------------------------
(* Characters and the character classes of Python's re and str.            *)

LowerSeq == <<"a","b","c","d","e","f","g","h","i","j","k","l","m",
              "n","o","p","q","r","s","t","u","v","w","x","y","z">>
UpperSeq == <<"A","B","C","D","E","F","G","H","I","J","K","L","M",
              "N","O","P","Q","R","S","T","U","V","W","X","Y","Z">>
Range(f) == {f[i] : i \in DOMAIN f}
LowerSet == Range(LowerSeq)
UpperSet == Range(UpperSeq)
DigitSet == {"0","1","2","3","4","5","6","7","8","9"}

IsSpace(c) == c \in {" ", "\n", "\t", "\r"}
IsLower(c) == c \in LowerSet
IsUpper(c) == c \in UpperSet
IsAlpha(c) == IsLower(c) \/ IsUpper(c)
IsDigit(c) == c \in DigitSet
IsWord(c)  == IsAlpha(c) \/ IsDigit(c) \/ c = "_"

\* str.upper() and str.lower() of one character
ToUpper == [c \in LowerSet |-> UpperSeq[CHOOSE i \in DOMAIN LowerSeq : LowerSeq[i] = c]]
ToLower == [c \in UpperSet |-> LowerSeq[CHOOSE i \in DOMAIN UpperSeq : UpperSeq[i] = c]]
UpperChar(c) == IF IsLower(c) THEN ToUpper[c] ELSE c
LowerChar(c) == IF IsUpper(c) THEN ToLower[c] ELSE c
UpperStr(s) == [i \in DOMAIN s |-> UpperChar(s[i])]
LowerStr(s) == [i \in DOMAIN s |-> LowerChar(s[i])]

\* the character at 1-based position i, "" outside the text
At(s, i) == IF i \in DOMAIN s THEN s[i] ELSE ""

\* the first position >= i that holds no whitespace (Len(s)+1 at the end)
RECURSIVE RunEnd(_, _)
RunEnd(s, i) == IF IsSpace(At(s, i)) THEN RunEnd(s, i + 1) ELSE i

\* the first position >= i that holds neither "." nor ","
RECURSIVE DotCommaEnd(_, _)
DotCommaEnd(s, i) == IF At(s, i) \in {".", ","} THEN DotCommaEnd(s, i + 1) ELSE i

\* str.strip()
RECURSIVE LStrip(_)
LStrip(s) == IF s # <<>> /\ IsSpace(Head(s)) THEN LStrip(Tail(s)) ELSE s
RECURSIVE RStrip(_)
RStrip(s) ==
    IF s # <<>> /\ IsSpace(s[Len(s)]) THEN RStrip(SubSeq(s, 1, Len(s) - 1)) ELSE s
Strip(s) == RStrip(LStrip(s))

----------------------------------------------------------------------------
(* re.sub(pattern, replacement, text) for the patterns of the normalizer.  *)
(* MatchEnd(rule, s, i) is the position after the match the regex engine   *)
(* finds starting at position i (i itself for an empty match), 0 if the    *)
(* pattern does not match at i.                                            *)

SentenceEnd == {".", "!", "?"}
Punctuation == {".", ",", ":", ";", "!", "?"}

MatchEnd(rule, s, i) ==
    LET j == RunEnd(s, i) IN
    CASE rule = "ws"  ->   \* \s+
            IF IsSpace(At(s, i)) THEN j ELSE 0
      [] rule = "r1"  ->   \* \s+\.
            IF IsSpace(At(s, i)) /\ At(s, j) = "." THEN j + 1 ELSE 0
      [] rule = "r2"  ->   \* \s+,
            IF IsSpace(At(s, i)) /\ At(s, j) = "," THEN j + 1 ELSE 0
      [] rule = "r3"  ->   \* [\.,]\s*[\.,]+
            LET k == RunEnd(s, i + 1) IN
            IF At(s, i) \in {".", ","} /\ At(s, k) \in {".", ","}
            THEN DotCommaEnd(s, k) ELSE 0
      [] rule = "r4"  ->   \* \s+(?=[\.,:;!?])
            IF IsSpace(At(s, i)) /\ At(s, j) \in Punctuation THEN j ELSE 0
      [] rule = "r5"  ->   \* (?<=[\.!?])\s*(?=[a-zA-Z])
            IF At(s, i - 1) \in SentenceEnd /\ IsAlpha(At(s, j)) THEN j ELSE 0
      [] rule = "r6"  ->   \* (?<=\w),(?=\w)
            IF IsWord(At(s, i - 1)) /\ At(s, i) = "," /\ IsWord(At(s, i + 1))
            THEN i + 1 ELSE 0
      [] rule = "r7"  ->   \* (?<=\w)(?=[A-Z])
            IF IsWord(At(s, i - 1)) /\ IsUpper(At(s, i)) THEN i ELSE 0
      [] rule = "r8"  ->   \* (?<=\w)\s+(?=[,])
            IF IsWord(At(s, i - 1)) /\ IsSpace(At(s, i)) /\ At(s, j) = ","
            THEN j ELSE 0
      [] rule = "r9"  ->   \* (?<=\d)\s+(?=[,\.])\s*(?=\d)
            LET ends == {k \in (i + 1)..j :
                            /\ At(s, k) \in {",", "."}
                            /\ \E m \in k..RunEnd(s, k) :
                                  /\ \A x \in k..(m - 1) : IsSpace(At(s, x))
                                  /\ IsDigit(At(s, m))}
            IN IF IsDigit(At(s, i - 1)) /\ IsSpace(At(s, i)) /\ ends # {}
               THEN CHOOSE k \in ends : \A x \in ends : x <= k ELSE 0
      [] rule = "r10" ->   \* (?<=[a-z])\s*\n\s*(?=[a-z])
            IF /\ IsLower(At(s, i - 1))
               /\ \E k \in i..(j - 1) : At(s, k) = "\n"
               /\ IsLower(At(s, j))
            THEN j ELSE 0

\* The scan of re.sub: leftmost matches, not overlapping; after an empty
\* match the next match at the same position must be longer (must_advance).
RECURSIVE SubFrom(_, _, _, _, _)
SubFrom(rule, repl, s, i, must_advance) ==
    IF i > Len(s) + 1 THEN <<>>
    ELSE LET e == MatchEnd(rule, s, i) IN
         IF e = 0 \/ (e = i /\ must_advance)
         THEN (IF i <= Len(s) THEN <<s[i]>> ELSE <<>>)
                  \o SubFrom(rule, repl, s, i + 1, FALSE)
         ELSE repl \o SubFrom(rule, repl, s, e, e = i)

ReSub(rule, repl, s) == SubFrom(rule, repl, s, 1, FALSE)

\* self.punctuation_rules, in insertion order: <<pattern, replacement>>
punctuation_rules ==
    << <<"r1", <<".">> >>,
       <<"r2", <<",">> >>,
       <<"r3", <<".">> >>,
       <<"r4", <<>> >>,
       <<"r5", <<" ">> >>,
       <<"r6", <<",", " ">> >>,
       <<"r7", <<".", " ">> >>,
       <<"r8", <<>> >>,
       <<"r9", <<>> >>,
       <<"r10", <<" ">> >> >>

\* for pattern, replacement in self.punctuation_rules.items(): text = re.sub(...)
RECURSIVE ApplyRules(_, _, _)
ApplyRules(rules, k, s) ==
    IF k > Len(rules) THEN s
    ELSE ApplyRules(rules, k + 1, ReSub(rules[k][1], rules[k][2], s))

\* text.split('. '): the pieces between the occurrences of ". ", left to right
RECURSIVE SplitFrom(_, _, _)
SplitFrom(s, i, piece) ==
    IF i > Len(s) THEN <<piece>>
    ELSE IF s[i] = "." /\ At(s, i + 1) = " "
         THEN <<piece>> \o SplitFrom(s, i + 2, <<>>)
         ELSE SplitFrom(s, i + 1, Append(piece, s[i]))
SplitSentences(s) == SplitFrom(s, 1, <<>>)

\* sentence[0].upper() + sentence[1:] if len(sentence) > 1 else sentence.upper()
Capitalize(sentence) ==
    IF Len(sentence) > 1 THEN <<UpperChar(sentence[1])>> \o Tail(sentence)
    ELSE UpperStr(sentence)

\* corrected_sentences: the non-empty sentences, capitalized
RECURSIVE CorrectedSentences(_)
CorrectedSentences(sentences) ==
    IF sentences = <<>> THEN <<>>
    ELSE (IF Head(sentences) # <<>> THEN <<Capitalize(Head(sentences))>> ELSE <<>>)
             \o CorrectedSentences(Tail(sentences))

\* '. '.join(pieces)
RECURSIVE JoinSentences(_)
JoinSentences(pieces) ==
    IF pieces = <<>> THEN <<>>
    ELSE IF Len(pieces) = 1 THEN pieces[1]
    ELSE pieces[1] \o <<".", " ">> \o JoinSentences(Tail(pieces))

\* Ensure final punctuation
EnsureFinal(s) ==
    IF s # <<>> /\ s[Len(s)] \notin SentenceEnd THEN Append(s, ".") ELSE s

\* GrammarCheckerApp.fix_text_structure
fix_text_structure(text) ==
    LET stripped == Strip(text) IN
    IF stripped = <<>> THEN stripped
    ELSE LET spaced  == ReSub("ws", <<" ">>, stripped)
             ruled   == ApplyRules(punctuation_rules, 1, spaced)
             joined  == JoinSentences(CorrectedSentences(SplitSentences(ruled)))
         IN EnsureFinal(joined)

----------------------------------------------------------------------------
(* The splice loop of check_grammar (the merge).  A match is a record      *)
(* [offset, errorLength, replacements], as language_tool_python gives it.  *)

Min(a, b) == IF a < b THEN a ELSE b

\* the place of m in a list kept by descending offset: after every element
\* whose offset is not smaller (list.sort is stable, also with reverse=True)
RECURSIVE InsertByOffset(_, _)
InsertByOffset(sorted, m) ==
    IF sorted = <<>> THEN <<m>>
    ELSE IF Head(sorted).offset >= m.offset
         THEN <<Head(sorted)>> \o InsertByOffset(Tail(sorted), m)
         ELSE <<m>> \o sorted

RECURSIVE SortFrom(_, _, _)
SortFrom(matches, k, sorted) ==
    IF k > Len(matches) THEN sorted
    ELSE SortFrom(matches, k + 1, InsertByOffset(sorted, matches[k]))

SortMatchesUnsorted(matches) == matches

\* matches.sort(key=lambda x: x.offset, reverse=True)
SortMatches(matches) == SortFrom(matches, 1, <<>>)

SpliceKeepsError(text, match) ==
    LET start == match.offset
    IN SubSeq(text, 1, Min(start, Len(text))) \o match.replacements[1]
           \o SubSeq(text, start + 1, Len(text))

\* corrected_text[:start] + match.replacements[0] + corrected_text[end:]
\* (a Python slice clips a bound beyond the end of the text)
Splice(text, match) ==
    LET start == match.offset
        end   == start + match.errorLength
    IN SubSeq(text, 1, Min(start, Len(text))) \o match.replacements[1]
           \o SubSeq(text, end + 1, Len(text))

\* for match in matches: if match.replacements: corrected_text = ...
RECURSIVE SpliceLoop(_, _, _)
SpliceLoop(text, matches, k) ==
    IF k > Len(matches) THEN text
    ELSE SpliceLoop(IF matches[k].replacements # <<>>
                    THEN Splice(text, matches[k]) ELSE text,
                    matches, k + 1)

\* check_grammar, from the sort to the end of the loop
MergeMatches(text, matches) == SpliceLoop(text, SortMatches(matches), 1)

----------------------------------------------------------------------------
(* Bounded inputs.                                                         *)

MaxNormLen  == 4    \* longest text drawn for the normalizer
MaxTextLen  == 3    \* longest text drawn for the merge
MaxSpanLen  == 2    \* longest errorLength drawn
MaxMatches  == 2    \* most matches in a drawn list

StringsUpTo(alphabet, n) == UNION {[1..k -> alphabet] : k \in 0..n}
SeqsUpTo(S, n) == UNION {[1..k -> S] : k \in 0..n}

NormAlphabet == {"a", "B", " ", ",", ".", ";"}
NormTexts    == StringsUpTo(NormAlphabet, MaxNormLen)

\* merge texts: prefixes of distinct letters, so that every position of the
\* text is recognisable in the result
MergeLetters == <<"a", "b", "c", "d", "e", "f", "g", "h">>
MergeTexts   == {SubSeq(MergeLetters, 1, n) : n \in 0..MaxTextLen}
\* candidate lists: none, a deletion, a longer replacement with an alternative
ReplacementLists == { <<>>, << <<>> >>, << <<"X", "Y">>, <<"Z">> >> }
MatchesFor(text) ==
    [offset : 0..(Len(text) + 1), errorLength : 1..MaxSpanLen,
     replacements : ReplacementLists]

\* the merge example of the specification
ExampleText == <<"I", " ", "h", "a", "s", " ", "a", " ", "a", "p", "p", "l", "e">>
ExampleMatches ==
    << [offset |-> 2, errorLength |-> 3, replacements |-> << <<"h", "a", "v", "e">> >>],
       [offset |-> 8, errorLength |-> 1, replacements |-> << <<"a", "n">> >>] >>
ExampleResult ==
    <<"I", " ", "h", "a", "v", "e", " ", "a", "n", " ", "a", "p", "p", "l", "e">>
\* the same example with the second span on the article "a", at offset 6
ExampleMatchesOnArticle ==
    << ExampleMatches[1],
       [offset |-> 6, errorLength |-> 1, replacements |-> << <<"a", "n">> >>] >>

----------------------------------------------------------------------------
(* Idle values of the variables a specification does not use.              *)

NoCycle == [kind |-> "none", input |-> <<>>, called |-> FALSE]

IdleApp ==
    /\ input_text = <<>> /\ previous_text = <<>> /\ output_text = <<>>
    /\ timer_active = FALSE /\ timer_remaining = 0
    /\ since_edit = 0 /\ fires = 0 /\ burst_len = 0
    /\ last_cycle = NoCycle
IdleNorm  == n_text = <<>> /\ n_once = <<>> /\ n_twice = <<>> /\ n_pc = "idle"
IdleMerge == m_text = <<>> /\ m_matches = <<>> /\ m_result = <<>> /\ m_pc = "idle"
IdleHl ==
    /\ h_text = <<>> /\ errors = <<>> /\ cache = {}
    /\ h_invoked = <<>> /\ h_ever = {} /\ h_returned = {}
    /\ h_status = "idle"

----------------------------------------------------------------------------
(* SpecNormalize: fix_text_structure applied to a drawn text, and then to  *)
(* its own result (check_grammar normalizes before and after the merge).   *)

InitNormalize ==
    /\ n_text \in NormTexts
    /\ n_once = <<>> /\ n_twice = <<>> /\ n_pc = "start"
    /\ IdleApp /\ IdleMerge /\ IdleHl

NormalizeOnce ==
    /\ n_pc = "start"
    /\ n_once' = fix_text_structure(n_text)
    /\ n_pc' = "once"
    /\ UNCHANGED <<n_text, n_twice, appVars, mergeVars, hlVars>>

NormalizeAgain ==
    /\ n_pc = "once"
    /\ n_twice' = fix_text_structure(n_once)
    /\ n_pc' = "twice"
    /\ UNCHANGED <<n_text, n_once, appVars, mergeVars, hlVars>>

NextNormalize == NormalizeOnce \/ NormalizeAgain
SpecNormalize == InitNormalize /\ [][NextNormalize]_vars

----------------------------------------------------------------------------
(* SpecMerge: the sort and the splice loop applied to a drawn text and     *)
(* match list.                                                             *)

InitMerge ==
    /\ \/ /\ m_text \in MergeTexts
          /\ m_matches \in SeqsUpTo(MatchesFor(m_text), MaxMatches)
       \/ /\ m_text = ExampleText
          /\ m_matches \in {ExampleMatches, ExampleMatchesOnArticle}
    /\ m_result = <<>> /\ m_pc = "start"
    /\ IdleApp /\ IdleNorm /\ IdleHl

Merge ==
    /\ m_pc = "start"
    /\ m_result' = MergeMatches(m_text, m_matches)
    /\ m_pc' = "done"
    /\ UNCHANGED <<m_text, m_matches, appVars, normVars, hlVars>>

NextMerge == Merge
SpecMerge == InitMerge /\ [][NextMerge]_vars

----------------------------------------------------------------------------
(* Properties of the normalizer (SpecNormalize).                           *)

\* C1: fix_text_structure is idempotent: applied to its own result it
\* returns that result, also for a text ending in a comma, colon or
\* semicolon, to which the last step appends a period.
NormalizeIdempotent == n_pc = "twice" => n_twice = n_once

----------------------------------------------------------------------------
(* Properties of the merge (SpecMerge).                                    *)

InRange(text, m) == m.offset + m.errorLength <= Len(text)
AllInRange(text, matches) == \A i \in DOMAIN matches : InRange(text, matches[i])
NonOverlapping(matches) ==
    \A i, j \in DOMAIN matches :
        i < j => \/ matches[i].offset + matches[i].errorLength <= matches[j].offset
                 \/ matches[j].offset + matches[j].errorLength <= matches[i].offset
\* the matches that carry a replacement: the ones the loop splices
Applied(matches) == {i \in DOMAIN matches : matches[i].replacements # <<>>}
\* by how much splicing match m changes the length
Growth(m) == Len(m.replacements[1]) - m.errorLength
RECURSIVE SumGrowth(_, _)
SumGrowth(matches, I) ==
    IF I = {} THEN 0
    ELSE LET i == CHOOSE x \in I : TRUE
         IN Growth(matches[i]) + SumGrowth(matches, I \ {i})
\* the 1-based positions of text that no span covers
Outside(text, matches) ==
    {p \in 1..Len(text) :
        \A i \in DOMAIN matches :
            ~(matches[i].offset < p /\ p <= matches[i].offset + matches[i].errorLength)}
\* where position p of the text belongs in the result: moved by the spliced
\* spans that end before it
NewPos(matches, p) ==
    p + SumGrowth(matches, {i \in Applied(matches) :
                               matches[i].offset + matches[i].errorLength < p})

\* C2: for pairwise non-overlapping spans that all end within the text, the
\* result has length len(t) - sum(length_i) + sum(len(replacement_i)) (over
\* the spans that carry a replacement), and every character of t outside all
\* spans is in the result, unchanged, at its place in the original order.
MergeSafety ==
    (m_pc = "done" /\ AllInRange(m_text, m_matches) /\ NonOverlapping(m_matches))
    => /\ Len(m_result) = Len(m_text) + SumGrowth(m_matches, Applied(m_matches))
       /\ \A p \in Outside(m_text, m_matches) :
             /\ NewPos(m_matches, p) \in DOMAIN m_result
             /\ m_result[NewPos(m_matches, p)] = m_text[p]

\* two spliced spans given in ascending order, with text left outside them
MergeSafetyWitness ==
    /\ m_pc = "done"
    /\ Len(m_matches) = 2
    /\ AllInRange(m_text, m_matches) /\ NonOverlapping(m_matches)
    /\ Applied(m_matches) = {1, 2}
    /\ m_matches[1].offset < m_matches[2].offset
    /\ Outside(m_text, m_matches) # {}
    /\ m_result # m_text

\* C5: a span with offset+length beyond the text is skipped: the result is
\* that of merging the list without its out-of-range spans.
OutOfRangeSkipped ==
    m_pc = "done" =>
        LET Fits(m) == InRange(m_text, m)
        IN m_result = MergeMatches(m_text, SelectSeq(m_matches, Fits))

\* C9: "I has a apple" with {2, 3, ["have"]} and {8, 1, ["an"]} merges to
\* "I have an apple".
MergeExample ==
    (m_pc = "done" /\ m_text = ExampleText /\ m_matches = ExampleMatches)
    => m_result = ExampleResult

\* C9, amended: with the second span at offset 6 (the article "a"; offset 8
\* is the first letter of "apple") the merge yields "I have an apple".
MergeExampleOnArticle ==
    (m_pc = "done" /\ m_text = ExampleText /\ m_matches = ExampleMatchesOnArticle)
    => m_result = ExampleResult

MergeExampleWitness ==
    /\ m_pc = "done" /\ m_text = ExampleText
    /\ m_matches = ExampleMatchesOnArticle
    /\ m_result = ExampleResult

----------------------------------------------------------------------------
(* Spec: GrammarCheckerApp of src/app.py.  Time is in milliseconds and     *)
(* passes in steps of at most TimeStep; the single-shot timer times out    *)
(* when its interval has elapsed, before time passes further and before a  *)
(* later notification is handled.                                          *)

Delay     == 300   \* self.timer.start(300)
TimeStep  == 100   \* the longest step of time
MaxBurst  == 3     \* burst_len counts up to this
MaxEngineMatches == 1   \* most matches the grammar engine returns to a cycle

\* the texts the user types
AppTexts == { <<>>, <<" ", "\n">>, <<"a", "n">>, <<"a", "n", " ">>, <<"a", ",">> }

\* what self.tool.check(text) may return
EngineMatchesFor(text) ==
    [offset : {0, Len(text)}, errorLength : {1},
     replacements : { <<>>, << <<"b">> >> }]
EngineMatchLists(text) == SeqsUpTo(EngineMatchesFor(text), MaxEngineMatches)

\* f"Error checking grammar: {str(e)}", as one piece
ErrorText == <<"Error checking grammar: ...">>

InitApp == IdleApp /\ IdleNorm /\ IdleMerge /\ IdleHl

start_timer_no_restart ==
    /\ timer_active' = TRUE
    /\ timer_remaining' = IF timer_active THEN timer_remaining ELSE Delay

\* GrammarCheckerApp.start_timer: QTimer.start(300) stops a running timer and
\* starts it again
start_timer ==
    /\ timer_active' = TRUE
    /\ timer_remaining' = Delay

\* the single-shot timer's interval has elapsed: timeout is emitted
TimerDue == timer_active /\ timer_remaining = 0

\* The user changes the text: textChanged is connected to start_timer.
Edit ==
    /\ ~TimerDue
    /\ \E t \in AppTexts \ {input_text} : input_text' = t
    /\ start_timer
    /\ since_edit' = 0
    /\ fires' = 0
    /\ burst_len' = IF burst_len > 0 /\ since_edit < Delay
                    THEN Min(burst_len + 1, MaxBurst) ELSE 1
    /\ UNCHANGED <<previous_text, output_text, last_cycle>>
    /\ UNCHANGED <<normVars, mergeVars, hlVars>>

\* Time passes, up to the timer's deadline.
Advance ==
    /\ ~TimerDue
    /\ LET d == IF timer_active THEN Min(TimeStep, timer_remaining) ELSE TimeStep
       IN /\ timer_remaining' = IF timer_active THEN timer_remaining - d ELSE timer_remaining
          /\ since_edit' = IF burst_len = 0 THEN 0 ELSE Min(since_edit + d, Delay + 1)
    /\ UNCHANGED <<input_text, previous_text, output_text, timer_active,
                   fires, burst_len, last_cycle>>
    /\ UNCHANGED <<normVars, mergeVars, hlVars>>

IsBlankNoStrip(text) == text = <<>>

\* not input_text.strip()
IsBlank(text) == Strip(text) = <<>>

TextUnchangedVsOutput == input_text = output_text

\* input_text == self.previous_text
TextUnchanged == input_text = previous_text

\* the timer's timeout calls check_grammar: what every branch shares
Timeout(kind, called) ==
    /\ TimerDue
    /\ timer_active' = FALSE
    /\ fires' = fires + 1
    /\ last_cycle' = [kind |-> kind, input |-> input_text, called |-> called]
    /\ UNCHANGED <<input_text, timer_remaining, since_edit, burst_len>>
    /\ UNCHANGED <<normVars, mergeVars, hlVars>>

\* check_grammar on blank input: self.output_text.clear(); return
CheckBlank ==
    /\ IsBlank(input_text)
    /\ Timeout("blank", FALSE)
    /\ output_text' = <<>>
    /\ UNCHANGED previous_text

\* check_grammar on the remembered text: return
CheckSkip ==
    /\ ~IsBlank(input_text)
    /\ TextUnchanged
    /\ Timeout("skip", FALSE)
    /\ UNCHANGED <<output_text, previous_text>>

\* check_grammar to its end: normalize, engine, sort and splice, normalize
CheckDone ==
    /\ ~IsBlank(input_text)
    /\ ~TextUnchanged
    /\ Timeout("done", TRUE)
    /\ LET structured_text == fix_text_structure(input_text)
       IN \E matches \in EngineMatchLists(structured_text) :
             output_text' = fix_text_structure(MergeMatches(structured_text, matches))
    /\ previous_text' = input_text

\* check_grammar when self.tool.check raises: the except branch
CheckError ==
    /\ ~IsBlank(input_text)
    /\ ~TextUnchanged
    /\ Timeout("error", TRUE)
    /\ output_text' = ErrorText
    /\ UNCHANGED previous_text

Next == Edit \/ Advance \/ CheckBlank \/ CheckSkip \/ CheckDone \/ CheckError
Spec == InitApp /\ [][Next]_vars

----------------------------------------------------------------------------
(* Properties of the application (Spec).                                   *)

\* a step in which the timer times out and check_grammar runs
FireStep == timer_active /\ ~timer_active'

\* C3: in a burst of notifications, each less than Delay after the one
\* before, check_grammar is called exactly once, Delay after the last
\* notification: never while less than Delay has passed since it, never
\* twice, and not later; and the one pending deadline is always that of the
\* latest notification.
DebounceCoalescing ==
    burst_len > 0 =>
        /\ fires <= 1
        /\ since_edit < Delay => (fires = 0 /\ timer_active)
        /\ since_edit = Delay => \/ (fires = 0 /\ TimerDue)
                                 \/ (fires = 1 /\ ~timer_active)
        /\ since_edit > Delay => (fires = 1 /\ ~timer_active)
        /\ timer_active => timer_remaining = Delay - since_edit

\* a burst of several notifications has had its one call
DebounceWitness == burst_len >= 2 /\ fires = 1 /\ since_edit = Delay

\* C4: when the grammar engine raises in a fired cycle, the corrected text
\* on display stays as it was.
EngineFailureKeepsOutput ==
    [][(FireStep /\ last_cycle'.kind = "error") => output_text' = output_text]_vars

\* C6: a fired cycle on the text of the completed cycle before it does not
\* call the grammar engine; a fired cycle on the text of a cycle that the
\* engine failed does call it; previous_text changes only in a cycle that
\* completes, to that cycle's input.
NoOpSkip ==
    [][/\ (FireStep /\ last_cycle.kind = "done" /\ last_cycle.input = input_text)
            => (last_cycle'.kind = "skip" /\ ~last_cycle'.called)
       /\ (FireStep /\ last_cycle.kind = "error" /\ last_cycle.input = input_text)
            => last_cycle'.called
       /\ previous_text' # previous_text
            => (FireStep /\ last_cycle'.kind = "done" /\ previous_text' = input_text)
      ]_vars

\* a cycle was skipped on the text a completed cycle remembered
NoOpSkipWitness ==
    /\ last_cycle.kind = "skip" /\ ~last_cycle.called
    /\ last_cycle.input = previous_text
    /\ output_text \notin {<<>>, ErrorText}

\* C7: fix_text_structure returns the empty text for empty or
\* whitespace-only input, and a cycle fired on such input empties the
\* corrected output and calls neither the engine nor the merge.
BlankShortCircuit ==
    [][/\ Strip(input_text) = <<>> => fix_text_structure(input_text) = <<>>
       /\ (FireStep /\ Strip(input_text) = <<>>)
            => /\ output_text' = <<>>
               /\ last_cycle'.kind = "blank" /\ ~last_cycle'.called
               /\ previous_text' = previous_text
      ]_vars

\* a cycle was fired on whitespace-only input
BlankWitness ==
    /\ last_cycle.kind = "blank" /\ last_cycle.input # <<>>
    /\ input_text = last_cycle.input
    /\ output_text = <<>> /\ previous_text # <<>>

\* what a completed cycle on text can put on display: normalize, merge the
\* engine's matches, normalize
PipelineResults(text) ==
    LET structured_text == fix_text_structure(text)
    IN {fix_text_structure(MergeMatches(structured_text, matches)) :
           matches \in EngineMatchLists(structured_text)}

\* C11: when a fired cycle is skipped because the input equals the
\* remembered text, the corrected output on display is a pipeline result
\* (normalize, merge, normalize) for that input, not an output emptied by a
\* blank cycle nor the error message of a failed cycle in between.
SkipIsTransparent ==
    last_cycle.kind = "skip" => output_text \in PipelineResults(last_cycle.input)

----------------------------------------------------------------------------
(* SpecHighlight: SpellCheckHighlighter of src/app_work.py.  The cache is  *)
(* a set of pairs <<case-folded token, correction>>, one pair per key.     *)

MaxGap == 2    \* longest run of spaces between two tokens

\* text.split(): the maximal runs without whitespace, in order
RECURSIVE SplitWords(_, _, _)
SplitWords(s, i, word) ==
    IF i > Len(s) THEN (IF word # <<>> THEN <<word>> ELSE <<>>)
    ELSE IF IsSpace(s[i])
         THEN (IF word # <<>> THEN <<word>> ELSE <<>>) \o SplitWords(s, i + 1, <<>>)
         ELSE SplitWords(s, i + 1, Append(word, s[i]))
Split(s) == SplitWords(s, 1, <<>>)

\* word.isdigit()
IsDigitStr(word) == word # <<>> /\ \A i \in DOMAIN word : IsDigit(word[i])

\* len(word) <= 1 or word.isdigit()
Skipped(word) == Len(word) <= 1 \/ IsDigitStr(word)

CacheKeys(c) == {p[1] : p \in c}
CacheHitExactCase(c, word) == word \in CacheKeys(c)
\* key = word.lower(); key in self.cache
CacheHit(c, word) == LowerStr(word) \in CacheKeys(c)
\* self.cache[key]
CacheGet(c, key) == (CHOOSE p \in c : p[1] = key)[2]
\* self.cache[key] = corrected
CachePut(c, key, corrected) == {p \in c : p[1] # key} \cup {<<key, corrected>>}

\* what TextBlob(word).correct() may do: return the word, return another
\* word, or raise
EngineOutcomes == {"same", "fixed", "raise"}
FixedWord == <<"t", "h", "e">>
Correction(word, outcome) == IF outcome = "same" THEN word ELSE FixedWord

\* The loop of check_text from word k on.  oracle gives the engine's outcome
\* for each case-folded token it can be asked about.
RECURSIVE CheckWords(_, _, _, _, _, _, _)
CheckWords(words, k, current_pos, errs, c, invoked, oracle) ==
    IF k > Len(words)
    THEN [errors |-> errs, cache |-> c, invoked |-> invoked, raised |-> FALSE]
    ELSE LET word == words[k]
             key  == LowerStr(word)
             next_pos == current_pos + Len(word) + 1
         IN IF Skipped(word)
            THEN CheckWords(words, k + 1, next_pos, errs, c, invoked, oracle)
            ELSE IF CacheHit(c, word)
            THEN LET corrected == CacheGet(c, key)
                 IN CheckWords(words, k + 1, next_pos,
                               IF LowerStr(corrected) # key
                               THEN Append(errs, <<current_pos, Len(word)>>) ELSE errs,
                               c, invoked, oracle)
            ELSE IF oracle[key] = "raise"
            THEN \* except Exception: self.errors = []
                 [errors |-> <<>>, cache |-> c,
                  invoked |-> Append(invoked, key), raised |-> TRUE]
            ELSE LET corrected == Correction(word, oracle[key])
                 IN CheckWords(words, k + 1, next_pos,
                               IF LowerStr(corrected) # key
                               THEN Append(errs, <<current_pos, Len(word)>>) ELSE errs,
                               CachePut(c, key, corrected),
                               Append(invoked, key), oracle)

\* SpellCheckHighlighter.check_text
check_text(text, c, oracle) == CheckWords(Split(text), 1, 0, <<>>, c, <<>>, oracle)

\* the texts given to check_text: up to two tokens, after up to one leading
\* space, up to MaxGap spaces apart
HlWords == { <<"t", "e">>, <<"T", "e">>, <<"o", "f">>, <<"a">>, <<"4", "2">> }
Gap(n) == [i \in 1..n |-> " "]
HlTexts ==
    {Gap(l) \o w : l \in 0..1, w \in HlWords \cup {<<>>}}
    \cup {Gap(l) \o w1 \o Gap(g) \o w2 :
             l \in 0..1, g \in 1..MaxGap, w1 \in HlWords, w2 \in HlWords}

\* the case-folded tokens of text the engine can be asked about
AskableKeys(text, c) ==
    {LowerStr(w) : w \in {x \in Range(Split(text)) : ~Skipped(x) /\ ~CacheHit(c, x)}}

InitHighlight == IdleHl /\ IdleApp /\ IdleNorm /\ IdleMerge

\* highlightBlock(text) calls check_text(text)
CheckText ==
    /\ \E text \in HlTexts :
         \E oracle \in [AskableKeys(text, cache) -> EngineOutcomes] :
            \E r \in {check_text(text, cache, oracle)} :
               /\ h_text' = text
               /\ errors' = r.errors
               /\ cache' = r.cache
               /\ h_invoked' = r.invoked
               /\ h_ever' = h_ever \cup Range(r.invoked)
               /\ h_returned' = h_returned \cup
                                  (IF r.raised
                                   THEN Range(SubSeq(r.invoked, 1, Len(r.invoked) - 1))
                                   ELSE Range(r.invoked))
               /\ h_status' = IF r.raised THEN "failed" ELSE "ok"
    /\ UNCHANGED <<appVars, normVars, mergeVars>>

NextHighlight == CheckText
SpecHighlight == InitHighlight /\ [][NextHighlight]_vars

----------------------------------------------------------------------------
(* Properties of the highlighter (SpecHighlight).                          *)

\* the tokens of text with their 0-based offsets: <<offset, token>>
RECURSIVE TokensFrom(_, _, _, _)
TokensFrom(s, i, start, word) ==
    IF i > Len(s) THEN (IF word # <<>> THEN << <<start, word>> >> ELSE <<>>)
    ELSE IF IsSpace(s[i])
         THEN (IF word # <<>> THEN << <<start, word>> >> ELSE <<>>)
                  \o TokensFrom(s, i + 1, i, <<>>)
         ELSE TokensFrom(s, i + 1, IF word = <<>> THEN i - 1 ELSE start, Append(word, s[i]))
Tokens(s) == TokensFrom(s, 1, 0, <<>>)

\* longer than one character, not purely numeric, and the case-folded
\* correction differs from the case-folded token
ShouldFlag(word, c) ==
    /\ Len(word) > 1
    /\ ~IsDigitStr(word)
    /\ LowerStr(word) \in CacheKeys(c)
    /\ LowerStr(CacheGet(c, LowerStr(word))) # LowerStr(word)

RECURSIVE FlaggedSpans(_, _)
FlaggedSpans(tokens, c) ==
    IF tokens = <<>> THEN <<>>
    ELSE (IF ShouldFlag(Head(tokens)[2], c)
          THEN << <<Head(tokens)[1], Len(Head(tokens)[2])>> >> ELSE <<>>)
             \o FlaggedSpans(Tail(tokens), c)

\* C8: the spans check_text emits are those of the tokens to flag, each at
\* its token's offset in the text: text[offset : offset+length] is the token.
SpansCoverTokens ==
    h_status = "ok" => errors = FlaggedSpans(Tokens(h_text), cache)

\* the entries of the cache are kept, one per key
CacheKept == cache \subseteq cache' /\ Cardinality(CacheKeys(cache')) = Cardinality(cache')
\* the engine is asked only about tokens that miss the cache, once in a call
AskedOnMiss ==
    /\ Range(h_invoked') \cap CacheKeys(cache) = {}
    /\ Cardinality(Range(h_invoked')) = Len(h_invoked')

\* C10: the cache only grows, no entry is removed or overwritten (also by a
\* call that fails), and the engine is asked only on a cache miss, at most
\* once per case-folded token over all calls.
CacheGrowsAskedOnce ==
    [][CacheKept /\ AskedOnMiss /\ Range(h_invoked') \cap h_ever = {}]_vars

\* C10, amended: ... at most once per case-folded token for which it returned
\* a correction; a token on which it raised is not stored and is asked again.
CacheGrowsAskedOnMiss ==
    [][/\ CacheKept /\ AskedOnMiss
       /\ Range(h_invoked') \cap h_returned = {}
       /\ h_returned' = CacheKeys(cache')
      ]_vars

\* a call failed on a token asked before, with an earlier entry still cached
CacheWitness ==
    /\ h_status = "failed" /\ errors = <<>>
    /\ cache # {}
    /\ h_invoked # <<>> /\ h_invoked[Len(h_invoked)] \notin CacheKeys(cache)

====
